---- MODULE Spec2Model ----
(***************************************************************************)
(* FHE challenge RD loop: the five-step loop of FHERDLoop, the code        *)
(* injection of FHECoder, the Docker runner FHERunner and the evaluator    *)
(* FHEEvaluator.                                                           *)
(*                                                                         *)
(* Texts are sequences of tokens.  The single characters are "{", "}",     *)
(* " ", "\n", "." "/", the digits and "c" (one ordinary character); the    *)
(* other tokens stand for a fixed multi-character text:                    *)
(*   "V"       void ClassName::eval()      (the marker without its brace)  *)
(*   "k"       one of the FHE keywords (EvalMult, m_cc, ...)               *)
(*   "F" "Fcpp" "Fjson"   the code fences: three backticks, bare or     *)
(*             followed by cpp or json                                     *)
(*   "j"       a well-formed JSON document                                 *)
(*   "Accuracy:" "accuracy:" "Slots passed:"   the score markers           *)
(*   "CMake Error"   one of the compiler/linker error markers              *)
(*   "timed out"     Docker command timed out after <n>s                   *)
(***************************************************************************)
EXTENDS Integers, Sequences, FiniteSets, TLC

\* Python's None and a present value, as a sequence of at most one element
None == <<>>
Some(x) == <<x>>
Val(o) == o[1]

\* no exception left the call
NoExc == "NoExc"

(***************************************************************************)
(* Text helpers                                                            *)
(***************************************************************************)
WS == {" ", "\n"}

SingleChars == {"{", "}", " ", "\n", ".", "/", "c", "0", "1", "2", "5", "9"}

RECURSIVE LStrip(_)
LStrip(s) == IF s # <<>> /\ Head(s) \in WS THEN LStrip(Tail(s)) ELSE s

RECURSIVE RStrip(_)
RStrip(s) ==
    IF s # <<>> /\ s[Len(s)] \in WS THEN RStrip(SubSeq(s, 1, Len(s) - 1)) ELSE s

\* str.strip()
Strip(s) == RStrip(LStrip(s))

\* s[:-1] : the text without its last character
ChopLastChar(s) ==
    IF s = <<>> THEN <<>>
    ELSE IF s[Len(s)] \in SingleChars THEN SubSeq(s, 1, Len(s) - 1)
    ELSE SubSeq(s, 1, Len(s) - 1) \o <<"c">>

\* s[-1:] : the last character of the text
LastChar(s) ==
    IF s = <<>> THEN <<>>
    ELSE IF s[Len(s)] \in SingleChars THEN <<s[Len(s)]>>
    ELSE <<"c">>

Min(S) == CHOOSE m \in S : \A n \in S : m <= n

Contains(s, t) == \E i \in 1..Len(s) : s[i] = t

(***************************************************************************)
(* FHECoder: the structural patcher                                        *)
(***************************************************************************)
IsFence(t) == t \in {"F", "Fcpp", "Fjson"}

\* what follows the three backticks inside the fence token
FenceRest(t) == IF t = "F" THEN <<>> ELSE <<"c">>

\* the stripped text between the first opening fence that has a later fence
\* and that later fence (the lazy DOTALL search of the source), or None
IsCppFence(t) == t = "Fcpp"
IsJsonFence(t) == t = "Fjson"

\* the opening fence of each of the three patterns ("cpp", "json", "")
IsOpenFence(lang, t) ==
    IF lang = "cpp" THEN IsCppFence(t)
    ELSE IF lang = "json" THEN IsJsonFence(t)
    ELSE IsFence(t)

FencedBlock(s, lang) ==
    LET opens == {i \in 1..Len(s) :
                    IsOpenFence(lang, s[i]) /\ \E j \in (i+1)..Len(s) : IsFence(s[j])}
    IN IF opens = {} THEN None
       ELSE LET i == Min(opens)
                j == Min({n \in (i+1)..Len(s) : IsFence(s[n])})
                inner == SubSeq(s, i + 1, j - 1)
            IN Some(Strip(IF lang = "" THEN FenceRest(s[i]) \o inner ELSE inner))

_extract_cpp_code(response) ==
    LET m1 == FencedBlock(response, "cpp")
        m2 == FencedBlock(response, "")
    IN IF m1 # None THEN Val(m1)
       ELSE IF m2 # None /\ Contains(Val(m2), "k") THEN Val(m2)
       ELSE <<>>

\* json.loads of the json block; None when absent or not parseable
_extract_config(response) ==
    LET m == FencedBlock(response, "json")
    IN IF m # None /\ Val(m) = <<"j">> THEN m ELSE None

\* the marker pattern: "V", optional whitespace, "{"; the index of its brace
MarkerEndAt(s, i) ==
    LET rest == {j \in (i+1)..Len(s) : s[j] \notin WS}
    IN IF s[i] = "V" /\ rest # {} /\ s[Min(rest)] = "{" THEN Min(rest) ELSE 0

MarkerStarts(s) == {i \in 1..Len(s) : MarkerEndAt(s, i) # 0}

\* the brace-depth scan: the index one past the character that closed depth
RECURSIVE ScanEnd(_, _, _)
ScanEnd(s, pos, depth) ==
    IF pos <= Len(s) /\ depth > 0
    THEN ScanEnd(s, pos + 1,
                 IF s[pos] = "{" THEN depth + 1
                 ELSE IF s[pos] = "}" THEN depth - 1 ELSE depth)
    ELSE pos

_strip_eval_wrapper(code) ==
    IF MarkerStarts(code) # {}
    THEN LET open == MarkerEndAt(code, Min(MarkerStarts(code)))
             body == SubSeq(code, open + 1, Len(code))
             pos  == ScanEnd(body, 1, 1)
         IN \* body[: pos - 1] of the source, whose pos counts from 0
            Strip(ChopLastChar(SubSeq(body, 1, pos - 1)))
    ELSE code

\* as _inject_eval_body, had it put the new body in front of the old one
_inject_eval_body_keeps_old(template_cpp, eval_body) ==
    IF MarkerStarts(template_cpp) = {}
    THEN [raised |-> "ValueError", text |-> <<>>]
    ELSE LET open == MarkerEndAt(template_cpp, Min(MarkerStarts(template_cpp)))
         IN [raised |-> NoExc,
             text |-> SubSeq(template_cpp, 1, open) \o <<"\n">> \o eval_body \o <<"\n">>
                      \o SubSeq(template_cpp, open + 1, Len(template_cpp))]

\* as _inject_eval_body, had it appended the function to a template without
\* the marker
_inject_eval_body_appends(template_cpp, eval_body) ==
    IF MarkerStarts(template_cpp) = {}
    THEN [raised |-> NoExc,
          text |-> template_cpp \o <<"V", "{", "\n">> \o eval_body \o <<"\n", "}">>]
    ELSE LET open == MarkerEndAt(template_cpp, Min(MarkerStarts(template_cpp)))
             pos  == ScanEnd(template_cpp, open + 1, 1)
         IN [raised |-> NoExc,
             text |-> SubSeq(template_cpp, 1, open) \o <<"\n">> \o eval_body \o <<"\n">>
                      \o LastChar(SubSeq(template_cpp, 1, pos - 1))
                      \o SubSeq(template_cpp, pos, Len(template_cpp))]

\* [raised |-> "ValueError"] or [raised |-> NoExc, text |-> patched template]
_inject_eval_body(template_cpp, eval_body) ==
    IF MarkerStarts(template_cpp) = {}
    THEN [raised |-> "ValueError", text |-> <<>>]
    ELSE LET open == MarkerEndAt(template_cpp, Min(MarkerStarts(template_cpp)))
             pos  == ScanEnd(template_cpp, open + 1, 1)
         IN [raised |-> NoExc,
             text |-> SubSeq(template_cpp, 1, open) \o <<"\n">> \o eval_body \o <<"\n">>
                      \o LastChar(SubSeq(template_cpp, 1, pos - 1))
                      \o SubSeq(template_cpp, pos, Len(template_cpp))]

\* _extract_eval_body of the trace viewer: Some(body), or None
_extract_eval_body(cpp_code) ==
    IF MarkerStarts(cpp_code) = {} THEN None
    ELSE LET open == MarkerEndAt(cpp_code, Min(MarkerStarts(cpp_code)))
             Body(pos) == Strip(ChopLastChar(SubSeq(cpp_code, open + 1, pos - 1)))
             Found(body) == IF body # <<>> THEN Some(body) ELSE None
         IN Found(Body(ScanEnd(cpp_code, open + 1, 1)))

(***************************************************************************)
(* Numbers.  A float is the fraction [n, d] in lowest terms.               *)
(***************************************************************************)
RECURSIVE Gcd(_, _)
Gcd(a, b) == IF b = 0 THEN a ELSE Gcd(b, a % b)

Frac(n, d) == LET g == Gcd(n, d) IN [n |-> n \div g, d |-> d \div g]

FracAdd(a, b) == Frac(a.n * b.d + b.n * a.d, a.d * b.d)

\* as FracGe, with > for >=
FracGt(a, b) == a.n * b.d > b.n * a.d

FracGe(a, b) == a.n * b.d >= b.n * a.d

Digits == {"0", "1", "2", "5", "9"}

DigitVal(c) == CASE c = "0" -> 0 [] c = "1" -> 1 [] c = "2" -> 2 [] c = "5" -> 5 [] c = "9" -> 9

RECURSIVE IntOf(_)
IntOf(s) == IF s = <<>> THEN 0 ELSE 10 * IntOf(SubSeq(s, 1, Len(s) - 1)) + DigitVal(s[Len(s)])

RECURSIVE Pow10(_)
Pow10(k) == IF k = 0 THEN 1 ELSE 10 * Pow10(k - 1)

\* the longest run of characters of the class cls starting at index i
RECURSIVE RunFrom(_, _, _)
RunFrom(s, i, cls) ==
    IF i <= Len(s) /\ s[i] \in cls THEN <<s[i]>> \o RunFrom(s, i + 1, cls) ELSE <<>>

\* float(text) for a text over digits and dots: [raised, value]
\* (value is read only when nothing was raised)
float(t) ==
    LET dots == {i \in 1..Len(t) : t[i] = "."}
    IN IF Cardinality(dots) > 1 \/ Len(t) = Cardinality(dots)
       THEN [raised |-> "ValueError", value |-> Frac(0, 1)]
       ELSE LET dot  == IF dots = {} THEN Len(t) + 1 ELSE Min(dots)
                ip   == SubSeq(t, 1, dot - 1)
                fp   == SubSeq(t, dot + 1, Len(t))
            IN [raised |-> NoExc,
                value |-> Frac(IntOf(ip) * Pow10(Len(fp)) + IntOf(fp), Pow10(Len(fp)))]

\* index of the first non-whitespace character after index i, 0 when none
NextNonWs(s, i) ==
    LET rest == {j \in (i+1)..Len(s) : s[j] \notin WS}
    IN IF rest = {} THEN 0 ELSE Min(rest)

\* the group of the first match of  <marker> whitespace* ([0-9.]+), or None
ScoreGroup(output, markers) ==
    LET hits == {i \in 1..Len(output) :
                    /\ output[i] \in markers
                    /\ NextNonWs(output, i) # 0
                    /\ output[NextNonWs(output, i)] \in Digits \cup {"."}}
    IN IF hits = {} THEN None
       ELSE Some(RunFrom(output, NextNonWs(output, Min(hits)), Digits \cup {"."}))

\* the groups of the first match of  Slots passed: whitespace* (\d+)/(\d+)
SlotsGroups(output) ==
    LET num(i) == RunFrom(output, NextNonWs(output, i), Digits)
        slash(i) == NextNonWs(output, i) + Len(num(i))
        hits == {i \in 1..Len(output) :
                    /\ output[i] = "Slots passed:"
                    /\ NextNonWs(output, i) # 0
                    /\ num(i) # <<>>
                    /\ slash(i) + 1 <= Len(output)
                    /\ output[slash(i)] = "/"
                    /\ output[slash(i) + 1] \in Digits}
    IN IF hits = {} THEN None
       ELSE Some([passed |-> num(Min(hits)),
                  total  |-> RunFrom(output, slash(Min(hits)) + 1, Digits)])

\* the float of a matched group, as [raised, value] with an optional value
FloatOf(g) == [raised |-> float(g).raised, value |-> Some(float(g).value)]

\* [raised, value]: value is Some(fraction) or None
_parse_accuracy_black_box(output) ==
    LET g == ScoreGroup(output, {"Accuracy:"})
        sl == SlotsGroups(output)
    IN IF g # None THEN FloatOf(Val(g))
       ELSE IF sl # None /\ IntOf(Val(sl).total) > 0
            THEN [raised |-> NoExc,
                  value |-> Some(Frac(IntOf(Val(sl).passed), IntOf(Val(sl).total)))]
       ELSE [raised |-> NoExc, value |-> None]

_parse_accuracy_from_output(output) ==
    LET g == ScoreGroup(output, {"Accuracy:", "accuracy:"})
    IN IF g # None THEN FloatOf(Val(g)) ELSE [raised |-> NoExc, value |-> None]

(***************************************************************************)
(* result.json of the validator.  Slot values and thresholds are integers  *)
(* in thousandths, Some(v); None is a value float() rejects.  A missing    *)
(* error_threshold key is None.                                            *)
(***************************************************************************)
\* the default of testcase.get("error_threshold", 0.01), in thousandths
DefaultErrorThreshold == 10

Abs(x) == IF x < 0 THEN -x ELSE x

MinLen(a, b) == IF Len(a) <= Len(b) THEN Len(a) ELSE Len(b)

\* a file that is missing, and one that does not hold the expected JSON
Absent == [state |-> "absent", testcases |-> <<>>]
Corrupt == [state |-> "corrupt", testcases |-> <<>>]

\* as _parse_accuracy_white_box, had the threshold of the testcase come first
_parse_accuracy_white_box_testcase_threshold_first(result_json) ==
    IF result_json = Corrupt THEN None
    ELSE
    LET tcs == result_json.testcases
        slots == UNION {UNION {{<<t, r, k>> :
                                  k \in 1..MinLen(tcs[t].runs[r].result, tcs[t].runs[r].expected)} :
                               r \in 1..Len(tcs[t].runs)} :
                        t \in 1..Len(tcs)}
        res(x) == tcs[x[1]].runs[x[2]].result[x[3]]
        expd(x) == tcs[x[1]].runs[x[2]].expected[x[3]]
        error_threshold(t) ==
            IF tcs[t].error_threshold = None THEN DefaultErrorThreshold
            ELSE Val(tcs[t].error_threshold)
        thresh(x) ==
            IF tcs[x[1]].error_threshold # None THEN Val(tcs[x[1]].error_threshold)
            ELSE IF tcs[x[1]].runs[x[2]].error_threshold # None
            THEN Val(tcs[x[1]].runs[x[2]].error_threshold)
            ELSE DefaultErrorThreshold
        correct == {x \in slots : Abs(Val(res(x)) - Val(expd(x))) <= thresh(x)}
    IN IF \E x \in slots : res(x) = None \/ expd(x) = None THEN None
       ELSE IF Cardinality(slots) > 0
            THEN Some(Frac(Cardinality(correct), Cardinality(slots)))
       ELSE None

\* Some(fraction), or None (also when reading or parsing raised)
_parse_accuracy_white_box(result_json) ==
    IF result_json = Corrupt THEN None
    ELSE
    LET tcs == result_json.testcases
        slots == UNION {UNION {{<<t, r, k>> :
                                  k \in 1..MinLen(tcs[t].runs[r].result, tcs[t].runs[r].expected)} :
                               r \in 1..Len(tcs[t].runs)} :
                        t \in 1..Len(tcs)}
        res(x) == tcs[x[1]].runs[x[2]].result[x[3]]
        expd(x) == tcs[x[1]].runs[x[2]].expected[x[3]]
        error_threshold(t) ==
            IF tcs[t].error_threshold = None THEN DefaultErrorThreshold
            ELSE Val(tcs[t].error_threshold)
        thresh(x) ==
            IF tcs[x[1]].runs[x[2]].error_threshold = None THEN error_threshold(x[1])
            ELSE Val(tcs[x[1]].runs[x[2]].error_threshold)
        correct == {x \in slots : Abs(Val(res(x)) - Val(expd(x))) <= thresh(x)}
    IN IF \E x \in slots : res(x) = None \/ expd(x) = None THEN None
       ELSE IF Cardinality(slots) > 0
            THEN Some(Frac(Cardinality(correct), Cardinality(slots)))
       ELSE None

(***************************************************************************)
(* FHERunner.  A command result is what the Docker process does:           *)
(* [kind |-> "exit", rc, out], [kind |-> "timeout"] or [kind |-> "error"]  *)
(* (subprocess.run raised).  The runner returns                            *)
(* [raised, exp, cmds, build_dir]: the exception that left it (or None),   *)
(* the experiment as mutated, the Docker commands issued in order and the  *)
(* files of the directory the container builds from.                       *)
(***************************************************************************)
\* the slices [-3000:] and [-800:] of the outputs
BuildTailLen == 3000
RunTailLen == 800

TailOf(s, n) == IF Len(s) <= n THEN s ELSE SubSeq(s, Len(s) - n + 1, Len(s))

\* as _docker_run, had a timeout been returned with exit code 0
_docker_run_timeout_exit_0(cmd) ==
    CASE cmd.kind = "exit"    -> [out |-> cmd.out, rc |-> cmd.rc]
      [] cmd.kind = "timeout" -> [out |-> <<"timed out">>, rc |-> 0]
      [] cmd.kind = "error"   -> [out |-> <<"c">>, rc |-> 1]

\* <<output, exit code>>
_docker_run(cmd) ==
    CASE cmd.kind = "exit"    -> [out |-> cmd.out, rc |-> cmd.rc]
      [] cmd.kind = "timeout" -> [out |-> <<"timed out">>, rc |-> 1]
      [] cmd.kind = "error"   -> [out |-> <<"c">>, rc |-> 1]

Cmd(op, fixture) == [op |-> op, fixture |-> fixture]

\* as Materialize, had the generated files been written first
Materialize_originals_win(template_files, file_dict) ==
    [f \in DOMAIN template_files \cup DOMAIN file_dict |->
        IF f \in DOMAIN template_files THEN template_files[f] ELSE file_dict[f]]

\* originals are copied where nothing exists yet, generated files written over
Materialize(template_files, file_dict) ==
    [f \in DOMAIN template_files \cup DOMAIN file_dict |->
        IF f \in DOMAIN file_dict THEN file_dict[f] ELSE template_files[f]]

\* the loop over the testcases, from testcase i on
RECURSIVE RunTestcases(_, _, _)
RunTestcases(testcases, i, acc) ==
    IF i > Len(testcases) \/ acc.raised # NoExc THEN acc
    ELSE
    LET Ran(r) == [acc EXCEPT !.cmds = Append(@, Cmd("run", i)),
                              !.run_outputs = @ \o (IF @ = <<>> THEN <<>> ELSE <<"\n">>)
                                                \o <<"===">> \o r.out]
        Counted(r, p, ran) ==
            IF r.rc # 0
            THEN [ran EXCEPT !.all_success = FALSE,
                             !.error_message = @ \o <<"Testcase failed">> \o TailOf(r.out, RunTailLen)]
            ELSE IF p.raised # NoExc THEN [ran EXCEPT !.raised = p.raised]
            ELSE IF p.value # None THEN [ran EXCEPT !.total_accuracy = FracAdd(@, Val(p.value))]
            ELSE ran
        Testcase_(r) == Counted(r, _parse_accuracy_black_box(r.out), Ran(r))
    IN RunTestcases(testcases, i + 1, Testcase_(_docker_run(testcases[i])))

\* as _run_black_box, had the testcases been run after a failed build
_run_black_box_runs_after_failed_build(exp, scen, env) ==
    LET built == [exp EXCEPT !.build_success = TRUE]
        Outcome(build_dir, b, acc) ==
          IF b.rc # 0
             THEN [raised |-> NoExc, build_dir |-> build_dir, cmds |-> acc.cmds,
                   exp |-> [exp EXCEPT !.build_success = FALSE,
                                       !.error_message = <<"Docker build failed">> \o TailOf(b.out, BuildTailLen),
                                       !.docker_output = b.out]]
             ELSE IF env.testcases = <<>>
             THEN [raised |-> NoExc, build_dir |-> build_dir,
                   cmds |-> <<Cmd("build", 0), Cmd("rmi", 0)>>,
                   exp |-> [built EXCEPT !.run_success = FALSE,
                                         !.error_message = <<"No testcase directories found">>,
                                         !.docker_output = b.out]]
             ELSE IF acc.raised # NoExc
             THEN [raised |-> acc.raised, build_dir |-> build_dir, cmds |-> acc.cmds,
                   exp |-> [built EXCEPT !.error_message = acc.error_message]]
             ELSE [raised |-> NoExc, build_dir |-> build_dir,
                   cmds |-> Append(acc.cmds, Cmd("rmi", 0)),
                   exp |-> [built EXCEPT !.error_message = acc.error_message,
                                         !.run_success = acc.all_success,
                                         !.docker_output = acc.run_outputs,
                                         !.accuracy = Some(Frac(acc.total_accuracy.n,
                                                                acc.total_accuracy.d * Len(env.testcases)))]]
    IN Outcome(Materialize(scen.template_files, exp.file_dict),
               _docker_run(env.build),
               RunTestcases(env.testcases, 1,
                   [total_accuracy |-> Frac(0, 1), run_outputs |-> <<>>, all_success |-> TRUE,
                    error_message |-> exp.error_message, raised |-> NoExc,
                    cmds |-> <<Cmd("build", 0)>>]))

\* as _run_black_box, had the sum of the accuracies not been divided
_run_black_box_sum_not_mean(exp, scen, env) ==
    LET built == [exp EXCEPT !.build_success = TRUE]
        Outcome(build_dir, b, acc) ==
          IF b.rc # 0
             THEN [raised |-> NoExc, build_dir |-> build_dir, cmds |-> <<Cmd("build", 0)>>,
                   exp |-> [exp EXCEPT !.build_success = FALSE,
                                       !.error_message = <<"Docker build failed">> \o TailOf(b.out, BuildTailLen),
                                       !.docker_output = b.out]]
             ELSE IF env.testcases = <<>>
             THEN [raised |-> NoExc, build_dir |-> build_dir,
                   cmds |-> <<Cmd("build", 0), Cmd("rmi", 0)>>,
                   exp |-> [built EXCEPT !.run_success = FALSE,
                                         !.error_message = <<"No testcase directories found">>,
                                         !.docker_output = b.out]]
             ELSE IF acc.raised # NoExc
             THEN [raised |-> acc.raised, build_dir |-> build_dir, cmds |-> acc.cmds,
                   exp |-> [built EXCEPT !.error_message = acc.error_message]]
             ELSE [raised |-> NoExc, build_dir |-> build_dir,
                   cmds |-> Append(acc.cmds, Cmd("rmi", 0)),
                   exp |-> [built EXCEPT !.error_message = acc.error_message,
                                         !.run_success = acc.all_success,
                                         !.docker_output = acc.run_outputs,
                                         !.accuracy = Some(Frac(acc.total_accuracy.n,
                                                                acc.total_accuracy.d))]]
    IN Outcome(Materialize(scen.template_files, exp.file_dict),
               _docker_run(env.build),
               RunTestcases(env.testcases, 1,
                   [total_accuracy |-> Frac(0, 1), run_outputs |-> <<>>, all_success |-> TRUE,
                    error_message |-> exp.error_message, raised |-> NoExc,
                    cmds |-> <<Cmd("build", 0)>>]))

\* as _run_black_box, had the mean been assigned only when every testcase ran
_run_black_box_mean_when_all_ran(exp, scen, env) ==
    LET built == [exp EXCEPT !.build_success = TRUE]
        Outcome(build_dir, b, acc) ==
          IF b.rc # 0
             THEN [raised |-> NoExc, build_dir |-> build_dir, cmds |-> <<Cmd("build", 0)>>,
                   exp |-> [exp EXCEPT !.build_success = FALSE,
                                       !.error_message = <<"Docker build failed">> \o TailOf(b.out, BuildTailLen),
                                       !.docker_output = b.out]]
             ELSE IF env.testcases = <<>>
             THEN [raised |-> NoExc, build_dir |-> build_dir,
                   cmds |-> <<Cmd("build", 0), Cmd("rmi", 0)>>,
                   exp |-> [built EXCEPT !.run_success = FALSE,
                                         !.error_message = <<"No testcase directories found">>,
                                         !.docker_output = b.out]]
             ELSE IF acc.raised # NoExc
             THEN [raised |-> acc.raised, build_dir |-> build_dir, cmds |-> acc.cmds,
                   exp |-> [built EXCEPT !.error_message = acc.error_message]]
             ELSE [raised |-> NoExc, build_dir |-> build_dir,
                   cmds |-> Append(acc.cmds, Cmd("rmi", 0)),
                   exp |-> [built EXCEPT !.error_message = acc.error_message,
                                         !.run_success = acc.all_success,
                                         !.docker_output = acc.run_outputs,
                                         !.accuracy =
                                            IF acc.all_success
                                            THEN Some(Frac(acc.total_accuracy.n,
                                                           acc.total_accuracy.d * Len(env.testcases)))
                                            ELSE None]]
    IN Outcome(Materialize(scen.template_files, exp.file_dict),
               _docker_run(env.build),
               RunTestcases(env.testcases, 1,
                   [total_accuracy |-> Frac(0, 1), run_outputs |-> <<>>, all_success |-> TRUE,
                    error_message |-> exp.error_message, raised |-> NoExc,
                    cmds |-> <<Cmd("build", 0)>>]))

_run_black_box(exp, scen, env) ==
    LET built == [exp EXCEPT !.build_success = TRUE]
        Outcome(build_dir, b, acc) ==
          IF b.rc # 0
             THEN [raised |-> NoExc, build_dir |-> build_dir, cmds |-> <<Cmd("build", 0)>>,
                   exp |-> [exp EXCEPT !.build_success = FALSE,
                                       !.error_message = <<"Docker build failed">> \o TailOf(b.out, BuildTailLen),
                                       !.docker_output = b.out]]
             ELSE IF env.testcases = <<>>
             THEN [raised |-> NoExc, build_dir |-> build_dir,
                   cmds |-> <<Cmd("build", 0), Cmd("rmi", 0)>>,
                   exp |-> [built EXCEPT !.run_success = FALSE,
                                         !.error_message = <<"No testcase directories found">>,
                                         !.docker_output = b.out]]
             ELSE IF acc.raised # NoExc
             THEN [raised |-> acc.raised, build_dir |-> build_dir, cmds |-> acc.cmds,
                   exp |-> [built EXCEPT !.error_message = acc.error_message]]
             ELSE [raised |-> NoExc, build_dir |-> build_dir,
                   cmds |-> Append(acc.cmds, Cmd("rmi", 0)),
                   exp |-> [built EXCEPT !.error_message = acc.error_message,
                                         !.run_success = acc.all_success,
                                         !.docker_output = acc.run_outputs,
                                         !.accuracy = Some(Frac(acc.total_accuracy.n,
                                                                acc.total_accuracy.d * Len(env.testcases)))]]
    IN Outcome(Materialize(scen.template_files, exp.file_dict),
               _docker_run(env.build),
               RunTestcases(env.testcases, 1,
                   [total_accuracy |-> Frac(0, 1), run_outputs |-> <<>>, all_success |-> TRUE,
                    error_message |-> exp.error_message, raised |-> NoExc,
                    cmds |-> <<Cmd("build", 0)>>]))

\* as ErrorMarkers, without the marker of CMake
ErrorMarkers_without_cmake == {"Compilation", "error:", "make[", "undefined reference"}

\* the keywords searched in the lower-cased output of a failed validator
ErrorMarkers == {"CMake Error", "Compilation", "error:", "make[", "undefined reference"}

_run_white_box(exp, scen, env) ==
    LET cmds == <<Cmd("validator", 0)>>
        Outcome(build_dir, v, ran, fromOut) ==
          IF v.rc # 0
             THEN [raised |-> NoExc, build_dir |-> build_dir, cmds |-> cmds,
                   exp |-> IF \E kw \in ErrorMarkers : Contains(v.out, kw)
                           THEN [ran EXCEPT !.build_success = FALSE, !.run_success = FALSE,
                                            !.error_message = <<"Compilation/build error">>
                                                              \o TailOf(v.out, BuildTailLen)]
                           ELSE [ran EXCEPT !.build_success = TRUE, !.run_success = FALSE,
                                            !.error_message = <<"Runtime error">>
                                                              \o TailOf(v.out, BuildTailLen)]]
             ELSE IF env.result_json # Absent
             THEN [raised |-> NoExc, build_dir |-> build_dir, cmds |-> cmds,
                   exp |-> [ran EXCEPT !.build_success = TRUE, !.run_success = TRUE,
                                       !.accuracy = _parse_accuracy_white_box(env.result_json)]]
             ELSE [raised |-> fromOut.raised, build_dir |-> build_dir, cmds |-> cmds,
                   exp |-> [ran EXCEPT !.build_success = TRUE, !.run_success = TRUE,
                                       !.accuracy = IF fromOut.raised = NoExc THEN fromOut.value ELSE @]]
        Validated(v) == Outcome(Materialize(scen.template_files, exp.file_dict), v,
                                [exp EXCEPT !.docker_output = v.out],
                                _parse_accuracy_from_output(v.out))
    IN Validated(_docker_run(env.validator))

FHERunner_develop(exp, scen, env) ==
    IF scen.challenge_type = "black_box" THEN _run_black_box(exp, scen, env)
    ELSE _run_white_box(exp, scen, env)

(***************************************************************************)
(* FHEExperiment, FHEExpGen, FHECoder.develop                              *)
(***************************************************************************)
\* as FHEExperiment, had run_success started as true
FHEExperiment_run_success_true(algorithm_plan) ==
    [sub_tasks |-> <<algorithm_plan>>, file_dict |-> <<>>,
     docker_output |-> <<>>, build_success |-> FALSE, run_success |-> TRUE,
     accuracy |-> None, error_message |-> <<>>]

\* FHEExperiment.__init__ for one task holding the algorithm plan
FHEExperiment(algorithm_plan) ==
    [sub_tasks |-> <<algorithm_plan>>, file_dict |-> <<>>,
     docker_output |-> <<>>, build_success |-> FALSE, run_success |-> FALSE,
     accuracy |-> None, error_message |-> <<>>]

\* a call of the language model: [kind |-> "ok", response |-> text], or
\* [kind |-> "raise", response |-> <<>>] when the backend is unavailable
LLMError == "RuntimeError"

\* [raised, exp]
FHEExpGen_gen(llm) ==
    IF llm.kind = "raise" THEN [raised |-> LLMError, exp |-> FHEExperiment(<<>>)]
    ELSE [raised |-> NoExc, exp |-> FHEExperiment(Strip(llm.response))]

\* FBWorkspace.inject_files: later files win on name collision
inject_files(file_dict, name, content) ==
    [f \in DOMAIN file_dict \cup {name} |-> IF f = name THEN content ELSE file_dict[f]]

TemplateCpp(scen) ==
    IF "yourSolution.cpp" \in DOMAIN scen.template_files
    THEN scen.template_files["yourSolution.cpp"] ELSE <<>>

\* [raised, exp]
FHECoder_develop(exp, scen, llm) ==
    LET template_cpp == TemplateCpp(scen)
        eval_body == _strip_eval_wrapper(_extract_cpp_code(llm.response))
        inj == _inject_eval_body(template_cpp, eval_body)
        with_cpp == inject_files(exp.file_dict, "yourSolution.cpp", inj.text)
        config == _extract_config(llm.response)
    IN IF exp.sub_tasks = <<>> THEN [raised |-> "CoderError", exp |-> exp]
       ELSE IF template_cpp = <<>> THEN [raised |-> "CoderError", exp |-> exp]
       ELSE IF llm.kind = "raise" THEN [raised |-> LLMError, exp |-> exp]
       ELSE IF _extract_cpp_code(llm.response) = <<>> THEN [raised |-> "CoderError", exp |-> exp]
       ELSE IF inj.raised # NoExc THEN [raised |-> "CoderError", exp |-> exp]
       ELSE [raised |-> NoExc,
             exp |-> [exp EXCEPT !.file_dict =
                        IF scen.challenge_type = "white_box" /\ config # None
                        THEN inject_files(with_cpp, "config.json", Val(config))
                        ELSE with_cpp]]

(***************************************************************************)
(* Trace and FHEEvaluator.  hist holds pairs [exp, fb]; exp is the index   *)
(* of the experiment object in the heap of experiments.                    *)
(***************************************************************************)
\* Trace.get_sota_hypothesis_and_experiment: Some(position in hist) or None
bestSoFar(hist, heap) ==
    LET known == {i \in 1..Len(hist) : heap[hist[i].exp].accuracy # None}
        acc(i) == Val(heap[hist[i].exp].accuracy)
        best == {i \in known : \A j \in known : FracGe(acc(i), acc(j))}
    IN IF known = {} THEN None ELSE Some(Min(best))

\* ExperimentFeedback.from_exception
from_exception(e) == [decision |-> FALSE, reason |-> <<"exception">>, exception |-> Some(e)]

ExperimentFeedback(reason, decision) ==
    [decision |-> decision, reason |-> reason, exception |-> None]

\* the accuracy generate_feedback reports as "Previous best accuracy":
\* Some(accuracy), or None when it adds nothing
previous_best(hist, heap) ==
    LET Reported(sota) ==
            IF sota # None THEN heap[hist[Val(sota)].exp].accuracy ELSE None
    IN Reported(bestSoFar(hist, heap))

\* as generate_feedback, without the build check
generate_feedback_without_build_check(exp, hist, heap, accuracy_threshold) ==
    LET sota == bestSoFar(hist, heap)
        passed == exp.accuracy # None /\ FracGe(Val(exp.accuracy), accuracy_threshold)
    IN IF ~exp.run_success THEN ExperimentFeedback(<<"Runtime error">>, FALSE)
       ELSE IF exp.accuracy = None
       THEN ExperimentFeedback(<<"accuracy could not be parsed">>, FALSE)
       ELSE ExperimentFeedback(
                <<IF passed THEN "PASSED" ELSE "FAILED">>
                \o (IF sota # None THEN <<"Previous best accuracy">> ELSE <<>>),
                passed)

\* as generate_feedback, an accuracy that is None compared as 0.0
generate_feedback_unparsed_as_zero(exp, hist, heap, accuracy_threshold) ==
    LET passed == FracGe(IF exp.accuracy = None THEN Frac(0, 1) ELSE Val(exp.accuracy),
                         accuracy_threshold)
    IN IF ~exp.build_success THEN ExperimentFeedback(<<"Build failed">>, FALSE)
       ELSE IF ~exp.run_success THEN ExperimentFeedback(<<"Runtime error">>, FALSE)
       ELSE ExperimentFeedback(<<IF passed THEN "PASSED" ELSE "FAILED">>, passed)

generate_feedback(exp, hist, heap, accuracy_threshold) ==
    LET sota == previous_best(hist, heap)
        passed == FracGe(Val(exp.accuracy), accuracy_threshold)
    IN IF ~exp.build_success THEN ExperimentFeedback(<<"Build failed">>, FALSE)
       ELSE IF ~exp.run_success THEN ExperimentFeedback(<<"Runtime error">>, FALSE)
       ELSE IF exp.accuracy = None
       THEN ExperimentFeedback(<<"accuracy could not be parsed">>, FALSE)
       ELSE ExperimentFeedback(
                <<IF passed THEN "PASSED" ELSE "FAILED">>
                \o (IF sota # None THEN <<"Previous best accuracy">> ELSE <<>>),
                passed)

(***************************************************************************)
(* FHERDLoop: the five steps.  prev_out is the dictionary of one loop:     *)
(* the outputs of its completed steps (None when the key is absent) and    *)
(* the skip exception under EXCEPTION_KEY.  An experiment output is the    *)
(* index of the experiment object in the heap.                             *)
(***************************************************************************)
\* as steps, had the class no step method named record
steps_without_record == <<"direct_exp_gen", "coding", "running", "feedback">>

\* the step methods of the class, in definition order
steps == <<"direct_exp_gen", "coding", "running", "feedback", "record">>

\* as skip_loop_error, had it named every exception
skip_loop_error_any == {"CoderError", "RuntimeError", "ValueError", "KeyError"}

skip_loop_error == {"CoderError"}

NoOut == [direct_exp_gen |-> None, coding |-> None, running |-> None,
          feedback |-> None, EXCEPTION_KEY |-> None]

\* LoopBase.get_unfinished_loop_cnt: the loops before next_loop still running
get_unfinished_loop_cnt(self, next_loop) ==
    Cardinality({li \in DOMAIN self.step_idx :
                    li < next_loop /\ self.step_idx[li] < Len(steps)})

\* as direct_exp_gen_gate, with <= for <
direct_exp_gen_gate_le(self, max_parallel) ==
    get_unfinished_loop_cnt(self, self.loop_idx) <= max_parallel

\* as direct_exp_gen_gate, had it stopped proposing after a passing attempt
direct_exp_gen_gate_until_pass(self, max_parallel) ==
    /\ get_unfinished_loop_cnt(self, self.loop_idx) < max_parallel
    /\ \A i \in 1..Len(self.trace.hist) : ~self.trace.hist[i].fb.decision

\* as direct_exp_gen_gate, had the loop at the gate been counted as well
direct_exp_gen_gate_counting_itself(self, max_parallel) ==
    get_unfinished_loop_cnt(self, self.loop_idx + 1) < max_parallel

\* the gate of direct_exp_gen: generate now, or sleep and look again
direct_exp_gen_gate(self, max_parallel) ==
    get_unfinished_loop_cnt(self, self.loop_idx) < max_parallel

\* [raised, exp]
direct_exp_gen(llm) == FHEExpGen_gen(llm)

\* [raised, exp]
coding(prev_out, heap, scen, llm) ==
    IF prev_out.direct_exp_gen = None
    THEN [raised |-> "KeyError", exp |-> FHEExperiment(<<>>)]
    ELSE FHECoder_develop(heap[Val(prev_out.direct_exp_gen)], scen, llm)

\* [raised, exp, cmds, build_dir]
running(prev_out, heap, scen, env) ==
    IF prev_out.coding = None
    THEN [raised |-> "KeyError", exp |-> FHEExperiment(<<>>), cmds |-> <<>>, build_dir |-> <<>>]
    ELSE FHERunner_develop(heap[Val(prev_out.coding)], scen, env)

\* as feedback, had the feedback of a skipped loop carried decision true
feedback_passing_skipped(prev_out, hist, heap, accuracy_threshold) ==
    IF prev_out.EXCEPTION_KEY # None
    THEN [raised |-> NoExc,
          fb |-> [from_exception(Val(prev_out.EXCEPTION_KEY)) EXCEPT !.decision = TRUE]]
    ELSE IF prev_out.running = None
    THEN [raised |-> "KeyError", fb |-> from_exception("KeyError")]
    ELSE [raised |-> NoExc,
          fb |-> generate_feedback(heap[Val(prev_out.running)], hist, heap, accuracy_threshold)]

\* [raised, fb]
feedback(prev_out, hist, heap, accuracy_threshold) ==
    IF prev_out.EXCEPTION_KEY # None
    THEN [raised |-> NoExc, fb |-> from_exception(Val(prev_out.EXCEPTION_KEY))]
    ELSE IF prev_out.running = None
    THEN [raised |-> "KeyError", fb |-> from_exception("KeyError")]
    ELSE [raised |-> NoExc,
          fb |-> generate_feedback(heap[Val(prev_out.running)], hist, heap, accuracy_threshold)]

\* a or b of two optional values
Or(a, b) == IF a # None THEN a ELSE b

\* as record, had the exception branch not fallen back on direct_exp_gen
record_without_fallback(prev_out, trace) ==
    LET exp == Or(prev_out.running, prev_out.coding)
    IN IF prev_out.feedback = None THEN [raised |-> "KeyError", trace |-> trace]
       ELSE IF exp # None
       THEN [raised |-> NoExc,
             trace |-> [hist |-> Append(trace.hist, [exp |-> Val(exp), fb |-> Val(prev_out.feedback)]),
                        dag_parent |-> Append(trace.dag_parent, {})]]
       ELSE [raised |-> NoExc, trace |-> trace]

\* the experiment record picks: the best available experiment object
RecordedExp(prev_out) ==
    IF prev_out.EXCEPTION_KEY # None
    THEN Or(prev_out.running, Or(prev_out.coding, prev_out.direct_exp_gen))
    ELSE Or(prev_out.running, prev_out.coding)

\* as record, had it inserted the pair at the front of hist
record_at_front(prev_out, trace) ==
    LET exp == RecordedExp(prev_out)
    IN IF prev_out.feedback = None THEN [raised |-> "KeyError", trace |-> trace]
       ELSE IF exp # None
       THEN [raised |-> NoExc,
             trace |-> [hist |-> <<[exp |-> Val(exp), fb |-> Val(prev_out.feedback)]>> \o trace.hist,
                        dag_parent |-> Append(trace.dag_parent, {})]]
       ELSE [raised |-> NoExc, trace |-> trace]

\* as record, had it written the pair over the last one (a lost update)
record_over_last(prev_out, trace) ==
    LET exp == RecordedExp(prev_out)
        pair == [exp |-> Val(exp), fb |-> Val(prev_out.feedback)]
    IN IF prev_out.feedback = None THEN [raised |-> "KeyError", trace |-> trace]
       ELSE IF exp # None
       THEN [raised |-> NoExc,
             trace |-> [hist |-> IF trace.hist = <<>> THEN <<pair>>
                                 ELSE [trace.hist EXCEPT ![Len(trace.hist)] = pair],
                        dag_parent |-> Append(trace.dag_parent, {})]]
       ELSE [raised |-> NoExc, trace |-> trace]

\* as record, had it appended the pair and no parent entry
record_without_parent(prev_out, trace) ==
    LET exp == RecordedExp(prev_out)
    IN IF prev_out.feedback = None THEN [raised |-> "KeyError", trace |-> trace]
       ELSE IF exp # None
       THEN [raised |-> NoExc,
             trace |-> [hist |-> Append(trace.hist, [exp |-> Val(exp), fb |-> Val(prev_out.feedback)]),
                        dag_parent |-> trace.dag_parent]]
       ELSE [raised |-> NoExc, trace |-> trace]

\* [raised, trace]
record(prev_out, trace) ==
    LET exp == RecordedExp(prev_out)
    IN IF prev_out.feedback = None THEN [raised |-> "KeyError", trace |-> trace]
       ELSE IF exp # None
       THEN [raised |-> NoExc,
             trace |-> [hist |-> Append(trace.hist, [exp |-> Val(exp), fb |-> Val(prev_out.feedback)]),
                        dag_parent |-> Append(trace.dag_parent, {})]]
       ELSE [raised |-> NoExc, trace |-> trace]

\* as best_accuracy_logged, had it taken the attempt appended last
best_accuracy_logged_latest(trace, heap) ==
    IF trace.hist = <<>> THEN None ELSE heap[trace.hist[Len(trace.hist)].exp].accuracy

\* the accuracy record logs as "Best accuracy so far" once the pair is
\* appended: Some(accuracy), or None when it logs nothing
best_accuracy_logged(trace, heap) ==
    LET Logged(sota) ==
            IF sota # None THEN heap[trace.hist[Val(sota)].exp].accuracy ELSE None
    IN Logged(bestSoFar(trace.hist, heap))

(***************************************************************************)
(* The run: main, the loop driver and its session of checkpoints           *)
(***************************************************************************)
MaxLoops == 2

Loops == 0..(MaxLoops - 1)

VARIABLES
    scen,       \* the challenge: [challenge_type, template_files]
    setting,    \* [accuracy_threshold, max_parallel, loop_n]
    loop,       \* the FHERDLoop object: [loop_idx, step_idx, loop_prev_out, exps, trace]
    session,    \* the checkpoints written so far, in order
    tracked,    \* whether this specification follows the checkpoint files
    run_state,  \* "running", or "crashed" once an exception left run()
    kick_pc,    \* the gate before Propose: "check" or "sleep"
    resumed,    \* main was started again from a checkpoint
    ghost,      \* history of the run, kept for the properties only
    call        \* the call under study in the specifications of single functions

vars == <<scen, setting, loop, session, tracked, run_state, kick_pc, resumed, ghost, call>>

\* FHERDLoop.__init__
FHERDLoop ==
    [loop_idx |-> 0,
     step_idx |-> [li \in Loops |-> 0],
     loop_prev_out |-> [li \in Loops |-> NoOut],
     exps |-> [li \in Loops |-> FHEExperiment(<<>>)],
     trace |-> [hist |-> <<>>, dag_parent |-> <<>>]]

\* LoopBase.load: the loop object pickled at checkpoint path
load(path, sess) == sess[path].loop

\* as main, had it built a new loop object whatever the path
main_always_new(path, sess) == FHERDLoop

\* the loop object main runs: a new one, or the one of the checkpoint
main(path, sess) == IF path = None THEN FHERDLoop ELSE load(Val(path), sess)

NoGhost ==
    [executed |-> [li \in Loops |-> <<>>],
     raised |-> [li \in Loops |-> None],
     hist_at_start |-> [li \in Loops |-> <<>>],
     record_order |-> <<>>,
     logged |-> <<>>,
     waited |-> {}]

NoCall == [fn |-> "none"]

\* the step index a skip exception jumps to
SkipTarget == (CHOOSE i \in 1..Len(steps) : steps[i] = "feedback") - 1

Finished(l, li) == l.step_idx[li] = Len(steps)

NextStep(li) == IF Finished(loop, li) THEN "none" ELSE steps[loop.step_idx[li] + 1]

\* step `name` of loop li returned: l2 is the loop object with the step's effects
StepDone(li, name, l2, g2) ==
    LET l3 == [l2 EXCEPT !.step_idx[li] = @ + 1]
        g3 == [g2 EXCEPT !.executed[li] = Append(@, name)]
    IN /\ loop' = l3
       /\ ghost' = g3
       /\ session' = IF tracked THEN Append(session, [loop |-> l3, ghost |-> g3]) ELSE session
       /\ run_state' = run_state

\* step `name` of loop li raised e
StepRaised(li, name, e, l2, g2) ==
    LET g3 == [g2 EXCEPT !.executed[li] = Append(@, name), !.raised[li] = Some(e)]
    IN /\ ghost' = g3
       /\ session' = session
       /\ IF e \in skip_loop_error
          THEN /\ loop' = [l2 EXCEPT !.loop_prev_out[li].EXCEPTION_KEY = Some(e),
                                      !.step_idx[li] = SkipTarget]
               /\ run_state' = run_state
          ELSE /\ loop' = l2
               /\ run_state' = "crashed"

(***************************************************************************)
(* Inputs of a run                                                         *)
(***************************************************************************)
Exit(rc, out) == [kind |-> "exit", rc |-> rc, out |-> out]
Timeout == [kind |-> "timeout", rc |-> 0, out |-> <<>>]
SpawnError == [kind |-> "error", rc |-> 0, out |-> <<>>]

Ok(response) == [kind |-> "ok", response |-> response]
Unavailable == [kind |-> "raise", response |-> <<>>]

GoodTemplate == <<"c", "V", " ", "{", "c", "}", "c">>
NoMarkerTemplate == <<"c", "{", "}">>

Scen(type, template) ==
    [challenge_type |-> type, template_files |-> ("yourSolution.cpp" :> template)]

LoopScens == {Scen("black_box", GoodTemplate), Scen("white_box", GoodTemplate)}

\* FHEPropSetting.accuracy_threshold = 0.8
DefaultAccuracyThreshold == Frac(4, 5)

LoopSettings ==
    {[accuracy_threshold |-> DefaultAccuracyThreshold, max_parallel |-> p, loop_n |-> n] :
        p \in 1..2, n \in 1..MaxLoops}

PlanLLM == {Ok(<<"c">>), Unavailable}

CodeLLM == {Ok(<<"Fcpp", "\n", "c", "\n", "F">>), Ok(<<"c">>), Unavailable}

\* what Docker does during one Execute: the build and one run per testcase
\* directory (self-contained), the validator and its result.json
Env(build, testcases, validator, result_json) ==
    [build |-> build, testcases |-> testcases, validator |-> validator, result_json |-> result_json]

Score(marker, digits) == <<"c", marker, " ">> \o digits \o <<"\n">>

LoopEnvs ==
    {Env(Exit(0, <<"c">>), <<Exit(0, Score("Accuracy:", <<"0", ".", "9">>))>>,
         Exit(0, Score("accuracy:", <<"0", ".", "9">>)), Absent),
     Env(Exit(0, <<"c">>), <<Exit(0, Score("Accuracy:", <<"0", ".", "5">>))>>,
         Exit(0, Score("accuracy:", <<"0", ".", "5">>)), Absent),
     Env(Exit(1, <<"CMake Error">>), <<>>, Exit(1, <<"CMake Error">>), Absent),
     Env(Exit(0, <<"c">>), <<Exit(0, Score("Accuracy:", <<"0", ".", "9", ".">>))>>,
         Exit(0, Score("accuracy:", <<"0", ".", "9", ".">>)), Absent)}

\* the inputs of the runs that are followed with their checkpoints
ResumeSettings ==
    {[accuracy_threshold |-> DefaultAccuracyThreshold, max_parallel |-> p, loop_n |-> MaxLoops] :
        p \in 1..2}

ResumePlanLLM == {Ok(<<"c">>)}

ResumeCodeLLM == {Ok(<<"Fcpp", "\n", "c", "\n", "F">>), Ok(<<"c">>)}

ResumeEnvs ==
    {Env(Exit(0, <<"c">>), <<Exit(0, Score("Accuracy:", <<"0", ".", "9">>))>>,
         Exit(0, Score("accuracy:", <<"0", ".", "9">>)), Absent),
     Env(Exit(0, <<"c">>), <<Exit(0, Score("Accuracy:", <<"0", ".", "9", ".">>))>>,
         Exit(0, Score("accuracy:", <<"0", ".", "9", ".">>)), Absent)}

(***************************************************************************)
(* The run of FHERDLoop                                                    *)
(***************************************************************************)
Init ==
    /\ scen \in LoopScens
    /\ setting \in LoopSettings
    /\ loop = main(None, <<>>)
    /\ session = <<>>
    /\ tracked = FALSE
    /\ run_state = "running"
    /\ kick_pc = "check"
    /\ resumed = FALSE
    /\ ghost = NoGhost
    /\ call = NoCall

Running(li) == run_state = "running" /\ li < loop.loop_idx

\* Propose: the first step of the next loop, once the gate lets it through
Propose ==
    LET li == loop.loop_idx IN
    /\ run_state = "running" /\ kick_pc = "check"
    /\ li < setting.loop_n
    /\ NextStep(li) = "direct_exp_gen"
    /\ direct_exp_gen_gate(loop, setting.max_parallel)
    /\ \E llm \in (IF tracked THEN ResumePlanLLM ELSE PlanLLM) :
         LET r == direct_exp_gen(llm)
             g2 == [ghost EXCEPT !.hist_at_start[li] = loop.trace.hist]
         IN IF r.raised = NoExc
            THEN StepDone(li, "direct_exp_gen",
                          [loop EXCEPT !.exps[li] = r.exp,
                                       !.loop_prev_out[li].direct_exp_gen = Some(li),
                                       !.loop_idx = @ + 1], g2)
            ELSE StepRaised(li, "direct_exp_gen", r.raised, loop, g2)
    /\ UNCHANGED <<scen, setting, tracked, kick_pc, resumed, call>>

\* the gate is closed: asyncio.sleep(1)
GateSleep ==
    /\ run_state = "running" /\ kick_pc = "check"
    /\ loop.loop_idx < setting.loop_n
    /\ NextStep(loop.loop_idx) = "direct_exp_gen"
    /\ ~direct_exp_gen_gate(loop, setting.max_parallel)
    /\ kick_pc' = "sleep"
    /\ ghost' = [ghost EXCEPT !.waited = @ \cup {loop.loop_idx}]
    /\ UNCHANGED <<scen, setting, loop, session, tracked, run_state, resumed, call>>

GateWake ==
    /\ run_state = "running" /\ kick_pc = "sleep"
    /\ kick_pc' = "check"
    /\ UNCHANGED <<scen, setting, loop, session, tracked, run_state, resumed, ghost, call>>

Implement(li) ==
    /\ Running(li) /\ NextStep(li) = "coding"
    /\ \E llm \in (IF tracked THEN ResumeCodeLLM ELSE CodeLLM) :
         LET r == coding(loop.loop_prev_out[li], loop.exps, scen, llm)
         IN IF r.raised = NoExc
            THEN StepDone(li, "coding",
                          [loop EXCEPT !.exps[li] = r.exp,
                                       !.loop_prev_out[li].coding = Some(li)], ghost)
            ELSE StepRaised(li, "coding", r.raised, loop, ghost)
    /\ UNCHANGED <<scen, setting, tracked, kick_pc, resumed, call>>

Execute(li) ==
    /\ Running(li) /\ NextStep(li) = "running"
    /\ \E env \in (IF tracked THEN ResumeEnvs ELSE LoopEnvs) :
         \E r \in {running(loop.loop_prev_out[li], loop.exps, scen, env)} :
            IF r.raised = NoExc
            THEN StepDone(li, "running",
                          [loop EXCEPT !.exps[li] = r.exp,
                                       !.loop_prev_out[li].running = Some(li)], ghost)
            ELSE StepRaised(li, "running", r.raised,
                            IF r.raised = "KeyError" THEN loop
                            ELSE [loop EXCEPT !.exps[li] = r.exp], ghost)
    /\ UNCHANGED <<scen, setting, tracked, kick_pc, resumed, call>>

Judge(li) ==
    /\ Running(li) /\ NextStep(li) = "feedback"
    /\ LET r == feedback(loop.loop_prev_out[li], loop.trace.hist, loop.exps,
                         setting.accuracy_threshold)
       IN IF r.raised = NoExc
          THEN StepDone(li, "feedback",
                        [loop EXCEPT !.loop_prev_out[li].feedback = Some(r.fb)], ghost)
          ELSE StepRaised(li, "feedback", r.raised, loop, ghost)
    /\ UNCHANGED <<scen, setting, tracked, kick_pc, resumed, call>>

Record(li) ==
    /\ Running(li) /\ NextStep(li) = "record"
    /\ LET r == record(loop.loop_prev_out[li], loop.trace)
       IN IF r.raised = NoExc
          THEN StepDone(li, "record", [loop EXCEPT !.trace = r.trace],
                        [ghost EXCEPT !.record_order = Append(@, li),
                                      !.logged = Append(@, best_accuracy_logged(r.trace, loop.exps))])
          ELSE StepRaised(li, "record", r.raised, loop, ghost)
    /\ UNCHANGED <<scen, setting, tracked, kick_pc, resumed, call>>

\* the checkpoints --path can name: any of them once the run has crashed; a
\* run that is interrupted is started again from its latest one (each
\* checkpoint is the latest one right after its step, so every step boundary
\* is among them)
ResumePoints ==
    IF run_state = "running" THEN {k \in {Len(session)} : k > 0} ELSE 1..Len(session)

\* main is started again with --path and the default --checkout: the run
\* goes on from checkpoint k and the checkpoints written after it are cleared
Resume ==
    /\ \E k \in ResumePoints :
         /\ loop' = main(Some(k), session)
         /\ ghost' = session[k].ghost
         /\ session' = SubSeq(session, 1, k)
    /\ run_state' = "running"
    /\ kick_pc' = "check"
    /\ resumed' = TRUE
    /\ UNCHANGED <<scen, setting, tracked, call>>

Next ==
    \/ Propose
    \/ GateSleep
    \/ GateWake
    \/ \E li \in Loops : Implement(li)
    \/ \E li \in Loops : Execute(li)
    \/ \E li \in Loops : Judge(li)
    \/ \E li \in Loops : Record(li)

\* the run without its checkpoint files, which no step reads
Spec == Init /\ [][Next]_vars

\* the run as the event loop schedules it: a sleep at the gate ends, and a
\* step that is ready to run is run
Fairness ==
    /\ WF_vars(Propose)
    /\ WF_vars(GateWake)
    /\ \A li \in Loops :
          /\ WF_vars(Implement(li))
          /\ WF_vars(Execute(li))
          /\ WF_vars(Judge(li))
          /\ WF_vars(Record(li))

SpecLive == Spec /\ Fairness

(***************************************************************************)
(* The run with its checkpoints: it can be stopped anywhere and started    *)
(* again from any checkpoint of the session                                *)
(***************************************************************************)
InitResume ==
    /\ scen = Scen("black_box", GoodTemplate)
    /\ setting \in ResumeSettings
    /\ loop = main(None, <<>>)
    /\ session = <<>>
    /\ tracked = TRUE
    /\ run_state = "running"
    /\ kick_pc = "check"
    /\ resumed = FALSE
    /\ ghost = NoGhost
    /\ call = NoCall

NextResume ==
    \/ Propose
    \/ GateSleep
    \/ GateWake
    \/ \E li \in Loops : Implement(li)
    \/ \E li \in Loops : Execute(li)
    \/ \E li \in Loops : Judge(li)
    \/ \E li \in Loops : Record(li)
    \/ Resume

SpecResume == InitResume /\ [][NextResume]_vars

(***************************************************************************)
(* Properties of the run                                                   *)
(***************************************************************************)
IsPrefix(a, b) == Len(a) <= Len(b) /\ SubSeq(b, 1, Len(a)) = a

HistOf(li) == {i \in 1..Len(loop.trace.hist) : loop.trace.hist[i].exp = li}

C2_StagesInOrderOnce ==
    \A li \in Loops :
        ghost.raised[li] = None =>
            /\ IsPrefix(ghost.executed[li],
                        <<"direct_exp_gen", "coding", "running", "feedback", "record">>)
            /\ Len(ghost.executed[li]) = loop.step_idx[li]
            /\ Finished(loop, li) =>
                   ghost.executed[li] = <<"direct_exp_gen", "coding", "running", "feedback", "record">>

C2_Witness ==
    \E li \in Loops : ghost.raised[li] = None /\ Finished(loop, li)

\* C3: when a step of a loop raised an exception other than CoderError the run
\* has stopped, the step that raised left the trace as it was, hist holds no
\* pair for that loop, and hist is what it was when the loop started (extended
\* only by the pairs of loops that ran beside it).
C3_AbortRecordsNothing ==
    /\ [](\A li \in Loops :
            (ghost.raised[li] # None /\ ghost.raised[li] # Some("CoderError")) =>
                /\ run_state = "crashed"
                /\ HistOf(li) = {}
                /\ IsPrefix(ghost.hist_at_start[li], loop.trace.hist)
                /\ setting.max_parallel = 1 => loop.trace.hist = ghost.hist_at_start[li])
    /\ [][run_state' = "crashed" => loop'.trace = loop.trace]_vars

C3_Witness ==
    \E li \in Loops :
        /\ ghost.raised[li] = Some("ValueError")
        /\ run_state = "crashed"
        /\ loop.trace.hist # <<>>

\* C4: the loop with index i makes its generation call only while fewer than
\* max_parallel loops of smaller index are unfinished; with max_parallel 1 at
\* most one loop is in flight at any time.
C4_Throttle ==
    /\ [](setting.max_parallel = 1 =>
            Cardinality({li \in Loops : ghost.executed[li] # <<>> /\ loop.step_idx[li] < 5}) <= 1)
    /\ [][\A i \in Loops :
            ghost.executed[i] = <<>> /\ ghost.executed'[i] # <<>> =>
                Cardinality({li \in Loops : li < i /\ loop.step_idx[li] < 5})
                    < setting.max_parallel]_vars

C4_Witness ==
    /\ setting.max_parallel = 1
    /\ \E li \in ghost.waited : ghost.executed[li] # <<>>

C7_AppendOnly ==
    [][/\ \A i \in 1..Len(loop.trace.hist) :
            /\ i <= Len(loop'.trace.hist)
            /\ loop'.trace.hist[i] = loop.trace.hist[i]
            /\ loop'.exps[loop.trace.hist[i].exp] = loop.exps[loop.trace.hist[i].exp]
       /\ loop'.trace.hist # loop.trace.hist =>
            /\ Len(loop'.trace.hist) = Len(loop.trace.hist) + 1
            /\ \E li \in Loops : ghost'.executed[li] = Append(ghost.executed[li], "record")]_vars

C7_Witness == Len(loop.trace.hist) >= 2

\* C8: hist holds exactly one whole pair per loop that completed record, in
\* the order in which the record steps completed.
C8_AtomicAppend ==
    /\ Len(loop.trace.hist) = Cardinality({li \in Loops : loop.step_idx[li] = 5})
    /\ Len(loop.trace.hist) = Len(ghost.record_order)
    /\ \A i \in 1..Len(loop.trace.hist) :
          /\ loop.trace.hist[i].exp = ghost.record_order[i]
          /\ loop.trace.hist[i].fb = Val(loop.loop_prev_out[ghost.record_order[i]].feedback)

C8_Witness ==
    /\ Len(loop.trace.hist) >= 2
    /\ loop.trace.hist[1].exp > loop.trace.hist[2].exp

MaxTestcases == 2

TestcaseRuns ==
    {Exit(0, Score("Accuracy:", <<"0", ".", "9">>)),
     Exit(0, Score("Accuracy:", <<"0", ".", "9", "2">>)),
     Exit(0, Score("Accuracy:", <<"1">>)),
     Exit(0, Score("Accuracy:", <<"0", ".", "9", ".">>)),
     Exit(0, Score("accuracy:", <<"0", ".", "5">>)),
     Exit(0, <<"Slots passed:", " ", "1", "/", "2", "\n">>),
     Exit(0, <<"Slots passed:", " ", "0", "/", "0", "\n">>),
     Exit(0, <<"c">>),
     Exit(1, <<"c">>),
     Exit(1, Score("Accuracy:", <<"1">>)),
     Timeout}

Builds == {Exit(0, <<"c">>), Exit(1, <<"c", "CMake Error">>), Timeout, SpawnError}

Validators ==
    {Exit(0, Score("accuracy:", <<"0", ".", "9">>)),
     Exit(0, Score("Accuracy:", <<".">>)),
     Exit(0, <<"c">>),
     Exit(1, <<"c", "CMake Error", "c">>),
     Exit(2, <<"error:", "c">>),
     Exit(1, <<"c">>),
     Timeout,
     SpawnError}

Data(testcases) == [state |-> "ok", testcases |-> testcases]

Run(result, expected, error_threshold) ==
    [result |-> result, expected |-> expected, error_threshold |-> error_threshold]

Testcase(runs, error_threshold) == [runs |-> runs, error_threshold |-> error_threshold]

SlotsGot == <<Some(1000), Some(500), Some(0)>>
SlotsExpected == <<Some(1005), Some(600)>>

ResultJsons ==
    {Absent, Corrupt,
     Data(<<>>),
     Data(<<Testcase(<<Run(SlotsGot, SlotsExpected, None)>>, None)>>),
     Data(<<Testcase(<<Run(SlotsGot, SlotsExpected, None)>>, Some(100))>>),
     Data(<<Testcase(<<Run(SlotsGot, SlotsExpected, Some(100))>>, Some(1))>>),
     Data(<<Testcase(<<Run(<<None>>, <<Some(1)>>, None)>>, None)>>)}

TestcaseLists == UNION {[1..n -> TestcaseRuns] : n \in 0..MaxTestcases}

RunnerEnvs ==
    {Env(b, t, Exit(1, <<"c">>), Absent) : b \in Builds, t \in TestcaseLists}
    \cup {Env(Exit(1, <<"c">>), <<>>, v, rj) : v \in Validators, rj \in ResultJsons}

RunnerScens ==
    {[challenge_type |-> type,
      template_files |-> [f \in {"yourSolution.cpp", "yourSolution.h"} |-> GoodTemplate]] :
        type \in {"black_box", "white_box"}}

\* the experiment as coding leaves it
CodedExperiment ==
    [FHEExperiment(<<"c">>) EXCEPT !.file_dict = ("yourSolution.cpp" :> <<"V", "{", "\n", "c", "\n", "}">>)]

DefaultSetting ==
    [accuracy_threshold |-> DefaultAccuracyThreshold, max_parallel |-> 1, loop_n |-> 1]

InitRunner ==
    /\ scen \in RunnerScens
    /\ setting = DefaultSetting
    /\ loop = FHERDLoop
    /\ session = <<>>
    /\ tracked = FALSE
    /\ run_state = "running"
    /\ kick_pc = "check"
    /\ resumed = FALSE
    /\ ghost = NoGhost
    /\ call \in {[fn |-> "FHERunner.develop", exp |-> CodedExperiment, env |-> env, done |-> FALSE,
                  result |-> [raised |-> NoExc, exp |-> CodedExperiment, cmds |-> <<>>,
                              build_dir |-> <<>>]] : env \in RunnerEnvs}

RunnerCall ==
    /\ call.fn = "FHERunner.develop" /\ ~call.done
    /\ call' = [call EXCEPT !.done = TRUE,
                            !.result = FHERunner_develop(call.exp, scen, call.env)]
    /\ UNCHANGED <<scen, setting, loop, session, tracked, run_state, kick_pc, resumed, ghost>>

NextRunner == RunnerCall

SpecRunner == InitRunner /\ [][NextRunner]_vars

\* C9: FHERunner.develop raises nothing, whatever Docker does and prints.
C9_RunnerNeverRaises ==
    (call.fn = "FHERunner.develop" /\ call.done) => call.result.raised = NoExc

(***************************************************************************)
(* FHEEvaluator.generate_feedback on its own: one call on every outcome    *)
(* an experiment object can hold                                           *)
(***************************************************************************)
Accuracies == {None, Some(Frac(0, 1)), Some(Frac(1, 2)), Some(Frac(4, 5)), Some(Frac(1, 1))}

Thresholds == {Frac(0, 1), Frac(1, 2), Frac(4, 5), Frac(1, 1)}

Outcomes ==
    {[FHEExperiment(<<"c">>) EXCEPT !.build_success = b, !.run_success = r, !.accuracy = a] :
        b \in BOOLEAN, r \in BOOLEAN, a \in Accuracies}

\* the traces the evaluator is given: hist and the experiment objects it refers to
Histories ==
    {[hist |-> <<>>, heap |-> [li \in {0} |-> FHEExperiment(<<"c">>)]],
     [hist |-> <<[exp |-> 0, fb |-> ExperimentFeedback(<<"PASSED">>, TRUE)]>>,
      heap |-> [li \in {0} |-> [FHEExperiment(<<"c">>) EXCEPT !.build_success = TRUE,
                                                               !.run_success = TRUE,
                                                               !.accuracy = Some(Frac(9, 10))]]],
     [hist |-> <<[exp |-> 0, fb |-> ExperimentFeedback(<<"Build failed">>, FALSE)]>>,
      heap |-> [li \in {0} |-> [FHEExperiment(<<"c">>) EXCEPT !.error_message = <<"c">>]]]}

InitJudge ==
    /\ scen = Scen("black_box", GoodTemplate)
    /\ setting \in {[DefaultSetting EXCEPT !.accuracy_threshold = t] : t \in Thresholds}
    /\ loop = FHERDLoop
    /\ session = <<>>
    /\ tracked = FALSE
    /\ run_state = "running"
    /\ kick_pc = "check"
    /\ resumed = FALSE
    /\ ghost = NoGhost
    /\ call \in {[fn |-> "generate_feedback", exp |-> e, trace |-> h, done |-> FALSE,
                  result |-> ExperimentFeedback(<<>>, FALSE)] : e \in Outcomes, h \in Histories}

JudgeCall ==
    /\ call.fn = "generate_feedback" /\ ~call.done
    /\ call' = [call EXCEPT !.done = TRUE,
                            !.result = generate_feedback(call.exp, call.trace.hist, call.trace.heap,
                                                         setting.accuracy_threshold)]
    /\ UNCHANGED <<scen, setting, loop, session, tracked, run_state, kick_pc, resumed, ghost>>

NextJudge == JudgeCall

SpecJudge == InitJudge /\ [][NextJudge]_vars

\* C10: for an experiment whose build_success is false generate_feedback
\* returns a feedback whose decision is false.
C10_BuildFailureNeverPasses ==
    (call.fn = "generate_feedback" /\ call.done /\ ~call.exp.build_success)
        => ~call.result.decision

C10_Witness ==
    /\ call.fn = "generate_feedback" /\ call.done
    /\ ~call.exp.build_success /\ call.exp.run_success
    /\ call.exp.accuracy = Some(Frac(1, 1))
    /\ setting.accuracy_threshold = Frac(4, 5)
    /\ call.trace.hist # <<>>

\* C11: for an experiment whose run_success is true and whose accuracy is
\* None, generate_feedback returns a feedback whose decision is false, for
\* every threshold, 0 included.
C11_UnparsedNeverPasses ==
    (call.fn = "generate_feedback" /\ call.done
        /\ call.exp.run_success /\ call.exp.accuracy = None)
        => ~call.result.decision

C11_Witness ==
    /\ call.fn = "generate_feedback" /\ call.done
    /\ call.exp.build_success /\ call.exp.run_success /\ call.exp.accuracy = None
    /\ setting.accuracy_threshold = Frac(0, 1)
    /\ call.result.reason = <<"accuracy could not be parsed">>

\* C12: for an experiment that was built and ran and holds an accuracy a, the
\* decision is true exactly when a >= threshold; a build failure is
\* reported before a run failure and a run failure before an accuracy that
\* could not be parsed.
C12_ThresholdDecides ==
    (call.fn = "generate_feedback" /\ call.done) =>
        LET e == call.exp
            first == call.result.reason[1]
        IN /\ ~e.build_success => first = "Build failed" /\ ~call.result.decision
           /\ (e.build_success /\ ~e.run_success) =>
                  first = "Runtime error" /\ ~call.result.decision
           /\ (e.build_success /\ e.run_success /\ e.accuracy = None) =>
                  first = "accuracy could not be parsed" /\ ~call.result.decision
           /\ (e.build_success /\ e.run_success /\ e.accuracy # None) =>
                  /\ first \in {"PASSED", "FAILED"}
                  /\ call.result.decision
                        <=> (Val(e.accuracy).n * setting.accuracy_threshold.d
                                >= setting.accuracy_threshold.n * Val(e.accuracy).d)

C12_Witness ==
    /\ call.fn = "generate_feedback" /\ call.done
    /\ call.exp.build_success /\ call.exp.run_success
    /\ call.exp.accuracy = Some(Frac(4, 5))
    /\ setting.accuracy_threshold = Frac(4, 5)
    /\ call.result.decision

(***************************************************************************)
(* The trace on its own: record and generate_feedback called on a trace    *)
(* of earlier attempts, for every sequence of accuracies drawn below       *)
(***************************************************************************)
MaxAttempts == 3

TraceAccuracies == {None, Some(Frac(3, 10)), Some(Frac(1, 2)), Some(Frac(9, 10))}

\* the experiment object of an attempt that ran and left this accuracy
Attempt(a) ==
    [FHEExperiment(<<"c">>) EXCEPT !.build_success = TRUE, !.run_success = TRUE, !.accuracy = a]

AttemptHeap(accs) == [li \in 0..(Len(accs) - 1) |-> Attempt(accs[li + 1])]

\* hist after the first n attempts were judged and recorded in order
RECURSIVE AttemptHist(_, _)
AttemptHist(accs, n) ==
    IF n = 0 THEN <<>>
    ELSE LET Recorded(before) ==
                 Append(before,
                        [exp |-> n - 1,
                         fb |-> generate_feedback(Attempt(accs[n]), before, AttemptHeap(accs),
                                                  DefaultAccuracyThreshold)])
         IN Recorded(AttemptHist(accs, n - 1))

\* the attempts so far, the last of them being judged or recorded
AttemptSeqs == UNION {[1..n -> TraceAccuracies] : n \in 1..MaxAttempts}

InitTrace ==
    /\ scen = Scen("black_box", GoodTemplate)
    /\ setting = DefaultSetting
    /\ loop = FHERDLoop
    /\ session = <<>>
    /\ tracked = FALSE
    /\ run_state = "running"
    /\ kick_pc = "check"
    /\ resumed = FALSE
    /\ ghost = NoGhost
    /\ call \in {[fn |-> f, accs |-> accs, heap |-> AttemptHeap(accs),
                  trace |-> [hist |-> AttemptHist(accs, Len(accs) - 1),
                             dag_parent |-> [k \in 1..(Len(accs) - 1) |-> {}]],
                  done |-> FALSE] : f \in {"record", "generate_feedback"}, accs \in AttemptSeqs}

\* the record step of the attempt that ran last
TraceRecordCall ==
    /\ call.fn = "record" /\ ~call.done
    /\ \E fb \in {generate_feedback(call.heap[Len(call.accs) - 1], call.trace.hist, call.heap,
                                     setting.accuracy_threshold)} :
       \E r \in {record([NoOut EXCEPT !.running = Some(Len(call.accs) - 1),
                                      !.feedback = Some(fb)], call.trace)} :
          call' = [fn |-> "record", accs |-> call.accs, heap |-> call.heap, trace |-> r.trace,
                   done |-> TRUE,
                   sota |-> bestSoFar(r.trace.hist, call.heap),
                   logged |-> best_accuracy_logged(r.trace, call.heap)]
    /\ UNCHANGED <<scen, setting, loop, session, tracked, run_state, kick_pc, resumed, ghost>>

\* the feedback step of the attempt that ran last
TraceJudgeCall ==
    /\ call.fn = "generate_feedback" /\ ~call.done
    /\ call' = [fn |-> "generate_feedback", accs |-> call.accs, heap |-> call.heap,
                trace |-> call.trace, done |-> TRUE,
                fb |-> generate_feedback(call.heap[Len(call.accs) - 1], call.trace.hist,
                                         call.heap, setting.accuracy_threshold),
                previous_best |-> previous_best(call.trace.hist, call.heap)]
    /\ UNCHANGED <<scen, setting, loop, session, tracked, run_state, kick_pc, resumed, ghost>>

NextTrace == TraceRecordCall \/ TraceJudgeCall

SpecTrace == InitTrace /\ [][NextTrace]_vars

\* the attempts of hist that hold an accuracy, and those of them no other
\* exceeds and no earlier one equals
WithAccuracy(hist, heap) == {i \in 1..Len(hist) : heap[hist[i].exp].accuracy # None}

Highest(hist, heap) ==
    {i \in WithAccuracy(hist, heap) :
        \A j \in WithAccuracy(hist, heap) :
            LET a == Val(heap[hist[i].exp].accuracy)
                b == Val(heap[hist[j].exp].accuracy)
            IN IF j < i THEN b.n * a.d < a.n * b.d ELSE b.n * a.d <= a.n * b.d}

MaxBodyLen == 3
MaxCodeLen == 5

PatchChars == {"c", "{", "}", " ", "\n", "V"}

Texts(n) == UNION {[1..k -> PatchChars] : k \in 0..n}

PatchTemplates ==
    {GoodTemplate,
     <<"V", "{", "}">>,
     <<"V", "\n", "{", "c", "{", "c", "}", "}", "c", "{", "}">>,
     <<"c", "V", "{", "c">>,
     NoMarkerTemplate,
     <<"V", "c", "{", "}">>}

\* the experiments develop is given: a new one, and one that holds files
PatchExperiments ==
    {FHEExperiment(<<"c">>),
     [FHEExperiment(<<"c">>) EXCEPT !.file_dict = ("yourSolution.cpp" :> <<"c">>)]}

InitPatch ==
    /\ scen = Scen("black_box", GoodTemplate)
    /\ setting = DefaultSetting
    /\ loop = FHERDLoop
    /\ session = <<>>
    /\ tracked = FALSE
    /\ run_state = "running"
    /\ kick_pc = "check"
    /\ resumed = FALSE
    /\ ghost = NoGhost
    /\ call \in
         {[fn |-> "_inject_eval_body", template |-> t, body |-> b, done |-> FALSE] :
             t \in PatchTemplates, b \in Texts(MaxBodyLen)}
         \cup {[fn |-> "_strip_eval_wrapper", code |-> c, done |-> FALSE] :
                  c \in Texts(MaxCodeLen)}
         \cup {[fn |-> "FHECoder.develop", scen |-> Scen(ty, t), exp |-> e, llm |-> l,
                 done |-> FALSE] :
                  ty \in {"black_box", "white_box"}, t \in PatchTemplates,
                  e \in PatchExperiments, l \in CodeLLM}

InjectCall ==
    /\ call.fn = "_inject_eval_body" /\ ~call.done
    /\ \E inj \in {_inject_eval_body(call.template, call.body)} :
          call' = [fn |-> call.fn, template |-> call.template, body |-> call.body, done |-> TRUE,
                   inj |-> inj,
                   back |-> IF inj.raised = NoExc THEN _extract_eval_body(inj.text) ELSE None]
    /\ UNCHANGED <<scen, setting, loop, session, tracked, run_state, kick_pc, resumed, ghost>>

StripCall ==
    /\ call.fn = "_strip_eval_wrapper" /\ ~call.done
    /\ \E once \in {_strip_eval_wrapper(call.code)} :
          call' = [fn |-> call.fn, code |-> call.code, done |-> TRUE,
                   once |-> once, twice |-> _strip_eval_wrapper(once)]
    /\ UNCHANGED <<scen, setting, loop, session, tracked, run_state, kick_pc, resumed, ghost>>

DevelopCall ==
    /\ call.fn = "FHECoder.develop" /\ ~call.done
    /\ call' = [fn |-> call.fn, scen |-> call.scen, exp |-> call.exp, llm |-> call.llm,
                done |-> TRUE, result |-> FHECoder_develop(call.exp, call.scen, call.llm)]
    /\ UNCHANGED <<scen, setting, loop, session, tracked, run_state, kick_pc, resumed, ghost>>

NextPatch == InjectCall \/ StripCall \/ DevelopCall

SpecPatch == InitPatch /\ [][NextPatch]_vars

\* the marker is somewhere in the text
HasMarker(s) ==
    \E i \in 1..Len(s) :
        /\ s[i] = "V"
        /\ \E j \in (i+1)..Len(s) : s[j] = "{" /\ \A k \in (i+1)..(j-1) : s[k] \in WS

\* opening braces less closing braces in the first n characters
RECURSIVE BraceDepth(_, _)
BraceDepth(s, n) ==
    IF n = 0 THEN 0
    ELSE BraceDepth(s, n - 1)
         + (IF s[n] = "{" THEN 1 ELSE IF s[n] = "}" THEN -1 ELSE 0)

Balanced(s) == BraceDepth(s, Len(s)) = 0 /\ \A n \in 0..Len(s) : BraceDepth(s, n) >= 0

\* C14: for a template that holds the marker and whose braces are balanced,
\* and for every body, _extract_eval_body of the patched template gives the
\* body that was injected, unchanged.
C14_RoundTrip ==
    (call.fn = "_inject_eval_body" /\ call.done
        /\ HasMarker(call.template) /\ Balanced(call.template))
        => call.inj.raised = NoExc /\ call.back = Some(call.body)

\* C14 as amended: for a template that holds the marker and whose braces are
\* balanced, and for every body that is not empty, whose own braces are
\* balanced and that neither begins nor ends with whitespace,
\* _extract_eval_body of the patched template gives the body that was
\* injected, unchanged.
C14_RoundTripOfTrimmedBalancedBody ==
    (call.fn = "_inject_eval_body" /\ call.done
        /\ HasMarker(call.template) /\ Balanced(call.template)
        /\ call.body # <<>> /\ Balanced(call.body)
        /\ call.body[1] \notin WS /\ call.body[Len(call.body)] \notin WS)
        => call.inj.raised = NoExc /\ call.back = Some(call.body)

C14_Witness ==
    /\ call.fn = "_inject_eval_body" /\ call.done
    /\ call.template = GoodTemplate
    /\ call.body = <<"{", "c", "}">>
    /\ call.inj.text = <<"c", "V", " ", "{", "\n", "{", "c", "}", "\n", "}", "c">>
    /\ call.back = Some(call.body)

\* C15: on a template without the marker _inject_eval_body raises ValueError
\* and gives no patched text; develop, once it has a body to inject, raises
\* CoderError, and whatever it raises it leaves the files of the
\* experiment's workspace as they were.
C15_NoMarkerFails ==
    /\ (call.fn = "_inject_eval_body" /\ call.done /\ ~HasMarker(call.template))
          => call.inj.raised = "ValueError" /\ call.inj.text = <<>> /\ call.back = None
    /\ (call.fn = "FHECoder.develop" /\ call.done
            /\ ~HasMarker(call.scen.template_files["yourSolution.cpp"]))
          => /\ call.result.raised # NoExc
             /\ call.llm.kind = "ok" => call.result.raised = "CoderError"
             /\ call.result.exp = call.exp

C15_Witness ==
    /\ call.fn = "FHECoder.develop" /\ call.done
    /\ call.scen.template_files["yourSolution.cpp"] = NoMarkerTemplate
    /\ call.llm = Ok(<<"Fcpp", "\n", "c", "\n", "F">>)
    /\ call.exp.file_dict # <<>>
    /\ call.result.raised = "CoderError"

\* C16: _strip_eval_wrapper applied to its own result changes nothing, for
\* every text, and a text without the marker is returned as it is.
C16_StripIdempotent ==
    (call.fn = "_strip_eval_wrapper" /\ call.done) =>
        /\ call.twice = call.once
        /\ ~HasMarker(call.code) => call.once = call.code

\* C17: a command that times out comes back from _docker_run with a
\* non-zero exit code and a message that names the timeout.  A build that
\* times out (self-contained) leaves build_success and run_success false and
\* an error_message that mentions the timeout, runs no testcase and raises
\* nothing; testcase runs that time out leave run_success false the same way.
C17_TimeoutIsFailure ==
    (call.fn = "FHERunner.develop" /\ call.done /\ scen.challenge_type = "black_box") =>
          /\ call.env.build = Timeout =>
                /\ _docker_run(call.env.build).rc # 0
                /\ Contains(_docker_run(call.env.build).out, "timed out")
                /\ call.result.raised = NoExc
                /\ ~call.result.exp.build_success /\ ~call.result.exp.run_success
                /\ Contains(call.result.exp.error_message, "timed out")
                /\ \A k \in 1..Len(call.result.cmds) : call.result.cmds[k].op # "run"
          /\ (/\ call.env.build = Exit(0, <<"c">>) /\ call.env.testcases # <<>>
              /\ \A k \in 1..Len(call.env.testcases) : call.env.testcases[k] = Timeout) =>
                /\ call.result.raised = NoExc
                /\ call.result.exp.build_success /\ ~call.result.exp.run_success
                /\ Contains(call.result.exp.error_message, "timed out")

C17_Witness ==
    /\ call.fn = "FHERunner.develop" /\ call.done /\ scen.challenge_type = "black_box"
    /\ call.env.build = Timeout
    /\ Len(call.env.testcases) = 2
    /\ call.result.cmds = <<Cmd("build", 0)>>
    /\ call.result.exp.error_message = <<"Docker build failed", "timed out">>

\* C18: when the validator (externally validated) ends with a non-zero exit
\* code, run_success is false; build_success is false exactly when the
\* output holds one of the fixed error markers; error_message ends with the
\* tail of the output and accuracy stays None.
C18_ValidatorFailureClassified ==
    (call.fn = "FHERunner.develop" /\ call.done /\ scen.challenge_type = "white_box"
        /\ (call.env.validator.kind = "exit" => call.env.validator.rc # 0)) =>
        LET out == call.result.exp.docker_output
            e == call.result.exp
        IN /\ call.result.raised = NoExc
           /\ call.env.validator.kind = "exit" => out = call.env.validator.out
           /\ ~e.run_success
           /\ ~e.build_success
                <=> \E k \in 1..Len(out) :
                       out[k] \in {"CMake Error", "Compilation", "error:", "make[",
                                   "undefined reference"}
           /\ e.error_message =
                <<IF e.build_success THEN "Runtime error" ELSE "Compilation/build error">> \o out
           /\ e.accuracy = None

C18_Witness ==
    /\ call.fn = "FHERunner.develop" /\ call.done /\ scen.challenge_type = "white_box"
    /\ call.env.validator = Exit(1, <<"c", "CMake Error", "c">>)
    /\ call.env.result_json # Absent
    /\ ~call.result.exp.build_success /\ ~call.result.exp.run_success

\* C19: in every state of every attempt of the run (fresh from
\* direct_exp_gen, after coding, after running in either variant, after a
\* step that raised), build_success = false implies run_success = false.
C19_FailedBuildNeverRan ==
    \A li \in Loops :
        loop.loop_prev_out[li].direct_exp_gen # None =>
            (~loop.exps[li].build_success => ~loop.exps[li].run_success)

C19_Witness ==
    \E li \in Loops :
        /\ scen.challenge_type = "black_box"
        /\ loop.loop_prev_out[li].running # None
        /\ Contains(loop.exps[li].error_message, "Docker build failed")
        /\ ~loop.exps[li].build_success /\ ~loop.exps[li].run_success

\* C20: self-contained variant: when the image build ends with a non-zero
\* exit code, develop returns at once without raising: build_success is
\* false, error_message is a heading followed by the last 3000 characters of
\* the build output, and the build is the only Docker command issued (no
\* testcase is run).
C20_FailedBuildReturnsAtOnce ==
    (call.fn = "FHERunner.develop" /\ call.done /\ scen.challenge_type = "black_box"
        /\ call.env.build.kind = "exit" /\ call.env.build.rc # 0) =>
        LET out == call.env.build.out
            e == call.result.exp
        IN /\ call.result.raised = NoExc
           /\ ~e.build_success
           /\ e.error_message =
                <<"Docker build failed">>
                \o SubSeq(out, IF Len(out) > 3000 THEN Len(out) - 2999 ELSE 1, Len(out))
           /\ e.docker_output = out
           /\ e.accuracy = None
           /\ call.result.cmds = <<Cmd("build", 0)>>

C20_Witness ==
    /\ call.fn = "FHERunner.develop" /\ call.done /\ scen.challenge_type = "black_box"
    /\ call.env.build = Exit(1, <<"c", "CMake Error">>)
    /\ Len(call.env.testcases) = 2
    /\ call.result.cmds = <<Cmd("build", 0)>>
    /\ call.result.exp.error_message = <<"Docker build failed", "c", "CMake Error">>

\* what the testcases 1..n that ended with a non-zero exit code add to
\* error_message, in order
RECURSIVE FixtureDiagnostics(_, _)
FixtureDiagnostics(testcases, n) ==
    IF n = 0 THEN <<>>
    ELSE FixtureDiagnostics(testcases, n - 1)
         \o (IF _docker_run(testcases[n]).rc # 0
              THEN <<"Testcase failed">> \o _docker_run(testcases[n]).out
              ELSE <<>>)

\* the build succeeded and there is at least one testcase directory
BuiltWithFixtures ==
    /\ call.fn = "FHERunner.develop" /\ call.done /\ scen.challenge_type = "black_box"
    /\ call.env.build.kind = "exit" /\ call.env.build.rc = 0
    /\ call.env.testcases # <<>>

\* every testcase was run once, in order; run_success says that all of them
\* ended with exit code 0; every failing one left its diagnostics
FixturesAllRun ==
    LET n == Len(call.env.testcases)
        IsRun(c) == c.op = "run"
    IN /\ SelectSeq(call.result.cmds, IsRun) = [k \in 1..n |-> Cmd("run", k)]
       /\ call.result.exp.run_success
            <=> \A k \in 1..n : call.env.testcases[k].kind = "exit" /\ call.env.testcases[k].rc = 0
       /\ call.result.exp.error_message = FixtureDiagnostics(call.env.testcases, n)

\* C21: self-contained variant, after a successful build with at least one
\* testcase: every testcase is run exactly once, in order, also after an
\* earlier one ended with a non-zero exit code; run_success is true exactly
\* when every run ended with exit code 0; every failing testcase adds its
\* diagnostics to error_message.
C21_EveryFixtureRunOnce == BuiltWithFixtures => FixturesAllRun

\* the same for the calls that return (the parse of no output raised)
C21_EveryFixtureRunOnceWhenReturning ==
    (BuiltWithFixtures /\ call.result.raised = NoExc) => FixturesAllRun

\* a failing testcase is followed by one that is run all the same
C21_ContinuesAfterFailure ==
    /\ BuiltWithFixtures /\ call.result.raised = NoExc
    /\ call.env.testcases = <<Exit(1, <<"c">>), Exit(0, Score("Accuracy:", <<"1">>))>>
    /\ call.result.cmds = <<Cmd("build", 0), Cmd("run", 1), Cmd("run", 2), Cmd("rmi", 0)>>
    /\ ~call.result.exp.run_success

\* the sum of the accuracies parsed from the outputs of the testcases 1..n
\* that ended with exit code 0
RECURSIVE FixtureAccuracySum(_, _)
FixtureAccuracySum(testcases, n) ==
    IF n = 0 THEN Frac(0, 1)
    ELSE LET t == testcases[n]
             Plus(sum, p) ==
                IF t.kind = "exit" /\ t.rc = 0 /\ p.value # None
                THEN FracAdd(sum, Val(p.value)) ELSE sum
         IN Plus(FixtureAccuracySum(testcases, n - 1),
                 IF t.kind = "exit" THEN _parse_accuracy_black_box(t.out)
                 ELSE [raised |-> NoExc, value |-> None])

\* C22: self-contained variant: the accuracy develop returns is the sum of
\* the accuracies parsed from the testcases that ended with exit code 0,
\* divided by the number of testcases; a testcase that failed or printed no
\* accuracy adds nothing to the sum and still counts in the divisor.  One
\* testcase printing "Accuracy: 0.92" gives 0.92, which generate_feedback
\* passes at threshold 0.8.
C22_MeanOverAttempted ==
    (BuiltWithFixtures /\ call.result.raised = NoExc) =>
        LET n == Len(call.env.testcases)
            sum == FixtureAccuracySum(call.env.testcases, n)
            acc == call.result.exp.accuracy
        IN /\ acc # None
           /\ Val(acc).n * (sum.d * n) = sum.n * Val(acc).d
           /\ call.env.testcases = <<Exit(0, Score("Accuracy:", <<"0", ".", "9", "2">>))>> =>
                 /\ Val(acc).n * 100 = 92 * Val(acc).d
                 /\ generate_feedback(call.result.exp, <<>>, <<>>, Frac(4, 5)).decision

\* a failed testcase and one that scored 0.9: the mean is 0.45
C22_Witness ==
    /\ BuiltWithFixtures /\ call.result.raised = NoExc
    /\ call.env.testcases = <<Exit(1, <<"c">>), Exit(0, Score("Accuracy:", <<"0", ".", "9">>))>>
    /\ call.result.exp.accuracy # None
    /\ Val(call.result.exp.accuracy).n * 100 = 45 * Val(call.result.exp.accuracy).d

\* the image is removed, as the last Docker command of the call
ImageRemoved ==
    /\ call.result.cmds # <<>>
    /\ call.result.cmds[Len(call.result.cmds)] = Cmd("rmi", 0)

\* C23: self-contained variant: on every path of develop after the build
\* command was issued (build failure, build timeout, no testcases, a failing
\* testcase, all testcases succeeding) the image is removed before develop
\* is left.
C23_ImageAlwaysRemoved ==
    (call.fn = "FHERunner.develop" /\ call.done /\ scen.challenge_type = "black_box") =>
        ImageRemoved

\* the paths on which the image is removed: the build ended with exit code 0
\* and develop returned
C23_ImageRemovedAfterBuild ==
    (call.fn = "FHERunner.develop" /\ call.done /\ scen.challenge_type = "black_box") =>
        (ImageRemoved <=> (_docker_run(call.env.build).rc = 0 /\ call.result.raised = NoExc))

\* develop is left with an image built and not removed
C23_ImageLeft ==
    /\ BuiltWithFixtures /\ call.result.raised = "ValueError"
    /\ call.result.exp.build_success
    /\ \A k \in 1..Len(call.result.cmds) : call.result.cmds[k].op # "rmi"

\* the accuracy of each result.json of ResultJsons, worked out by hand: slot
\* values 1.000 against 1.005 and 0.500 against 0.600
ArtifactAccuracy(result_json) ==
    CASE result_json = Corrupt -> None
      [] result_json = Data(<<>>) -> None
      \* no threshold anywhere: 0.01, one slot of two is within it
      [] result_json = Data(<<Testcase(<<Run(SlotsGot, SlotsExpected, None)>>, None)>>)
            -> Some(Frac(1, 2))
      \* threshold 0.1 of the testcase: both slots
      [] result_json = Data(<<Testcase(<<Run(SlotsGot, SlotsExpected, None)>>, Some(100))>>)
            -> Some(Frac(1, 1))
      \* threshold 0.1 of the run before 0.001 of the testcase: both slots
      [] result_json = Data(<<Testcase(<<Run(SlotsGot, SlotsExpected, Some(100))>>, Some(1))>>)
            -> Some(Frac(1, 1))
      \* a slot that is no number
      [] result_json = Data(<<Testcase(<<Run(<<None>>, <<Some(1)>>, None)>>, None)>>) -> None

\* C24: externally validated variant, validator exit code 0: build_success
\* and run_success are true; the accuracy is computed from result.json when
\* the file exists (slots within the threshold / slots; the threshold of the
\* run, else that of the testcase, else 0.01) and read from the accuracy
\* marker of the output only when the file is absent.
C24_ValidatedAccuracy ==
    (call.fn = "FHERunner.develop" /\ call.done /\ scen.challenge_type = "white_box"
        /\ call.env.validator.kind = "exit" /\ call.env.validator.rc = 0) =>
        LET e == call.result.exp
            marker == ScoreGroup(call.env.validator.out, {"Accuracy:", "accuracy:"})
        IN /\ e.build_success /\ e.run_success
           /\ call.env.result_json # Absent =>
                 /\ call.result.raised = NoExc
                 /\ e.accuracy = ArtifactAccuracy(call.env.result_json)
           /\ (call.env.result_json = Absent /\ call.result.raised = NoExc) =>
                 /\ marker = None => e.accuracy = None
                 /\ marker = Some(<<"0", ".", "9">>) => e.accuracy = Some(Frac(9, 10))

\* the run's threshold decides, and the accuracy 0.9 of the output is left aside
C24_Witness ==
    /\ call.fn = "FHERunner.develop" /\ call.done /\ scen.challenge_type = "white_box"
    /\ call.env.validator = Exit(0, Score("accuracy:", <<"0", ".", "9">>))
    /\ call.env.result_json = Data(<<Testcase(<<Run(SlotsGot, SlotsExpected, Some(100))>>, Some(1))>>)
    /\ call.result.exp.accuracy = Some(Frac(1, 1))

\* every run ended with exit code 0 and no output holds a score:
\* self-contained, every testcase; externally validated, the validator, with
\* a result.json that yields nothing or none at all
NothingParsedBlackBox ==
    /\ BuiltWithFixtures
    /\ \A k \in 1..Len(call.env.testcases) :
          /\ call.env.testcases[k].kind = "exit" /\ call.env.testcases[k].rc = 0
          /\ ScoreGroup(call.env.testcases[k].out, {"Accuracy:"}) = None
          /\ SlotsGroups(call.env.testcases[k].out) = None

NothingParsedWhiteBox ==
    /\ call.fn = "FHERunner.develop" /\ call.done /\ scen.challenge_type = "white_box"
    /\ call.env.validator.kind = "exit" /\ call.env.validator.rc = 0
    /\ \/ call.env.result_json \in {Corrupt, Data(<<>>)}
       \/ /\ call.env.result_json = Absent
          /\ ScoreGroup(call.env.validator.out, {"Accuracy:", "accuracy:"}) = None

\* nothing is raised, the accuracy is None and generate_feedback fails the
\* experiment saying that the accuracy could not be parsed
JudgedAsUnparsed ==
    /\ call.result.raised = NoExc
    /\ call.result.exp.accuracy = None
    /\ generate_feedback(call.result.exp, <<>>, <<>>, setting.accuracy_threshold)
         = ExperimentFeedback(<<"accuracy could not be parsed">>, FALSE)

\* C25: in both variants, when the run ends with exit code 0 and no accuracy
\* can be parsed from its output or from result.json, the experiment comes
\* back with accuracy None and generate_feedback returns decision false with
\* a reason saying that the accuracy could not be parsed; nothing is raised.
C25_ParseFailureIsSoft ==
    (NothingParsedBlackBox \/ NothingParsedWhiteBox) => JudgedAsUnparsed

\* the same for the externally validated variant alone
C25_ParseFailureIsSoftWhenValidated == NothingParsedWhiteBox => JudgedAsUnparsed

\* self-contained: the accuracy that could not be parsed comes back as 0
C25_UnparsedScoresZero ==
    /\ NothingParsedBlackBox
    /\ call.result.raised = NoExc
    /\ call.result.exp.run_success
    /\ call.result.exp.accuracy = Some(Frac(0, 1))
    /\ generate_feedback(call.result.exp, <<>>, <<>>, setting.accuracy_threshold)
         = ExperimentFeedback(<<"FAILED">>, FALSE)

\* C26: in both variants, in the directory the container builds from, a file
\* that is both a template file of the challenge and a generated file of the
\* experiment holds the generated content, and a template file with no
\* generated counterpart holds its template content.
C26_GeneratedFilesWin ==
    (call.fn = "FHERunner.develop" /\ call.done) =>
        /\ \A f \in DOMAIN scen.template_files \cap DOMAIN call.exp.file_dict :
              call.result.build_dir[f] = call.exp.file_dict[f]
        /\ \A f \in DOMAIN scen.template_files \ DOMAIN call.exp.file_dict :
              call.result.build_dir[f] = scen.template_files[f]

C26_Witness ==
    /\ call.fn = "FHERunner.develop" /\ call.done /\ scen.challenge_type = "white_box"
    /\ "yourSolution.cpp" \in DOMAIN scen.template_files \cap DOMAIN call.exp.file_dict
    /\ scen.template_files["yourSolution.cpp"] # call.exp.file_dict["yourSolution.cpp"]
    /\ call.result.build_dir["yourSolution.cpp"] = call.exp.file_dict["yourSolution.cpp"]
    /\ "yourSolution.h" \notin DOMAIN call.exp.file_dict
    /\ call.result.build_dir["yourSolution.h"] = scen.template_files["yourSolution.h"]

\* C27: in every state of the run dag_parent has one entry for each pair of
\* hist, and every entry is the empty parent set: each record that appends a
\* pair appends exactly one empty entry.
C27_OneEmptyParentPerPair ==
    /\ Len(loop.trace.dag_parent) = Len(loop.trace.hist)
    /\ \A k \in 1..Len(loop.trace.dag_parent) : loop.trace.dag_parent[k] = {}

C27_Witness ==
    /\ Len(loop.trace.hist) = 2
    /\ loop.trace.dag_parent = <<{}, {}>>
    /\ ghost.record_order = <<0, 1>>

\* develop returned an experiment whose run_success is false
ReturnedFailedRun ==
    /\ call.fn = "FHERunner.develop" /\ call.done
    /\ call.result.raised = NoExc
    /\ ~call.result.exp.run_success

\* C28 as claimed: whenever develop returns an experiment with run_success
\* false (build failure, no testcases, validator failure, a testcase ending
\* with a non-zero exit code), its accuracy is None.
C28_FailedRunHasNoAccuracy == ReturnedFailedRun => call.result.exp.accuracy = None

\* C28 as amended: an experiment returned with run_success false has accuracy
\* None when the build failed or timed out, when there is no testcase and
\* when the validator failed; when testcases were run and one of them ended
\* with a non-zero exit code it carries the mean over all testcases, which
\* generate_feedback does not read (its reason is the run failure).
C28_FailedRunAccuracy ==
    ReturnedFailedRun =>
        /\ call.result.exp.accuracy = None
             <=> ~(/\ scen.challenge_type = "black_box"
                   /\ _docker_run(call.env.build).rc = 0
                   /\ call.env.testcases # <<>>)
        /\ (call.result.exp.accuracy # None /\ call.result.exp.build_success) =>
              /\ LET sum == FixtureAccuracySum(call.env.testcases, Len(call.env.testcases))
                     acc == Val(call.result.exp.accuracy)
                 IN acc.n * (sum.d * Len(call.env.testcases)) = sum.n * acc.d
              /\ generate_feedback(call.result.exp, <<>>, <<>>, Frac(0, 1))
                   = ExperimentFeedback(<<"Runtime error">>, FALSE)

\* one testcase failed, the other scored 1: run_success false, accuracy 0.5
C28_Witness ==
    /\ ReturnedFailedRun /\ scen.challenge_type = "black_box"
    /\ call.env.testcases = <<Exit(0, Score("Accuracy:", <<"1">>)), Exit(1, <<"c">>)>>
    /\ call.result.exp.accuracy # None
    /\ Val(call.result.exp.accuracy).n * 2 = Val(call.result.exp.accuracy).d

\* C29: in every state of the run, every pair of hist whose feedback has
\* decision true holds an experiment with build_success and run_success true
\* and an accuracy that is not None and at least the threshold; the pair of
\* a loop skipped out of coding holds the experiment with its initial
\* outcome and decision false.
C29_PassedMeansMeasured ==
    \A k \in 1..Len(loop.trace.hist) :
        LET e == loop.exps[loop.trace.hist[k].exp]
            fb == loop.trace.hist[k].fb
            thr == setting.accuracy_threshold
        IN /\ fb.decision =>
                /\ e.build_success /\ e.run_success
                /\ e.accuracy # None
                /\ Val(e.accuracy).n * thr.d >= thr.n * Val(e.accuracy).d
           /\ loop.loop_prev_out[loop.trace.hist[k].exp].EXCEPTION_KEY # None =>
                /\ ~fb.decision
                /\ ~e.build_success /\ ~e.run_success /\ e.accuracy = None

\* a trace with a passed pair and the pair of a skipped loop
C29_Witness ==
    /\ \E k \in 1..Len(loop.trace.hist) :
          /\ loop.trace.hist[k].fb.decision
          /\ loop.exps[loop.trace.hist[k].exp].accuracy = Some(Frac(9, 10))
    /\ \E k \in 1..Len(loop.trace.hist) :
          /\ loop.loop_prev_out[loop.trace.hist[k].exp].EXCEPTION_KEY = Some("CoderError")
          /\ ~loop.trace.hist[k].fb.decision

====
